---- MODULE Spec2Model ----
(***************************************************************************)
(* Model of the conversation session engine of ai-selfbot:                 *)
(*   - DiscordAIBot.send_with_retry   (src/discord_selfbot.py)             *)
(*   - BinXChatClient                 (src/binx_client.py)                 *)
(* Each part has its own specification over the module's variables; the    *)
(* variables of the other part stay at their initial values.               *)
(***************************************************************************)
EXTENDS Integers, Sequences, FiniteSets, TLC

VARIABLES
    \* ---- DiscordAIBot.send_with_retry ----
    pc,            \* position of the call: "idle", "try", "sleep", "done"
    max_retries,   \* the max_retries argument
    attempt,       \* the loop variable of `for attempt in range(max_retries)`
    pending,       \* what the next channel.send call is going to produce
    sleep_for,     \* argument of the asyncio.sleep the call is suspended in
    trace,         \* the channel.send calls and sleeps of the call, in order
    result,        \* how the call ended: value returned, None, or exception
    \* ---- BinXChatClient ----
    conversation_history,  \* self.conversation_history
    response_history,      \* self.response_history
    spc,                   \* position of send_message: "idle" or "stream"
    message,               \* the message argument of the running send_message
    full_response,         \* local full_response of the running send_message
    chunk_count,           \* local chunk_count of the running send_message
    lines_seen,            \* lines that response.iter_lines() has produced
    before,                \* the two histories as they were when the last call began
    last_call,             \* the last method call on the client and how it ended
    last_reply,            \* text of the last non-empty reply a send completed
    stream_callback,       \* whether the last send_message was given a stream_callback
    callbacks,             \* the arguments of the stream_callback calls of that send
    \* ---- the streamed response ----
    body,           \* the lines of the response to the last send_message
    rest,           \* those of them that iter_lines() has not produced yet
    \* ---- DiscordAIBot: the event loop, its message handlers, the sweep task ----
    handlers,       \* the on_message tasks: position, command, message number, client held
    received,       \* number of /ai messages received so far
    running,        \* the task that is inside synchronous code, or "none"
    sweep,          \* cleanup_conversations: position and number of sweeps that raised
    closed,         \* self.is_closed()
    lookup,         \* per task inside a store or client method: the state it started from
    sent,           \* the last send_message started: message, client, whether it was stored
    \* ---- ConversationManager ----
    conversations,  \* self.conversations: channel id -> [client, last_activity]
    clients,        \* the BinXChatClient instances created so far, by identity
    now,            \* datetime.now(), in minutes
    store_call,     \* the last ConversationManager call and what it returned
    script          \* the get_or_create("c1") calls so far, while nothing else was called

dvars == <<pc, max_retries, attempt, pending, sleep_for, trace, result>>
svars == <<conversation_history, response_history, spc, message, full_response,
           chunk_count, lines_seen, before, last_call, last_reply,
           stream_callback, callbacks>>
rvars == <<body, rest>>
bvars == <<handlers, received, running, sweep, closed, lookup, sent>>
stvars == <<conversations, clients, now, store_call, script>>
vars  == <<dvars, svars, stvars, rvars, bvars>>

(***************************************************************************)
(* Bounds of the model.                                                    *)
(***************************************************************************)
MaxRetriesBound == 3
MaxTurns == 4
MaxResponses == 2
MaxLines == 3
MaxClients == 3
MaxStoreTurns == 2
MaxMessages == 2
MaxSweepFailures == 1

(***************************************************************************)
(* send_with_retry: outcomes of channel.send                               *)
(***************************************************************************)
DefaultMaxRetries == 3
DefaultRetryAfter == 5
DefaultSlowWait   == 5
SlowModeBuffer    == 1

\* "no such attribute" / "no regex match"
Absent == -1

\* channel.send returned a message
OkOutcome == [kind |-> "ok", status |-> 0, code |-> 0, retry_after |-> Absent, secs |-> Absent]

\* discord.errors.HTTPException: e.status, e.code, the retry_after attribute when
\* the exception object has one, and the integer that the text of the exception
\* shows before "second" when it shows one.
HttpError(st, cd, ra, sc) ==
    [kind |-> "http", status |-> st, code |-> cd, retry_after |-> ra, secs |-> sc]

HttpErrors ==
    { HttpError(st, cd, Absent, Absent) : st \in {403, 429, 500}, cd \in {0, 50013, 20016} }
    \cup { HttpError(429, 0, 2, Absent), HttpError(500, 20016, Absent, 3) }

\* any other exception raised by channel.send
OtherError == [kind |-> "other", status |-> 0, code |-> 0, retry_after |-> Absent, secs |-> Absent]

Outcomes == {OkOutcome, OtherError} \cup HttpErrors

\* `if e.status == 403 or e.code == 50013`
IsPermissionDeniedStatusOnly(e) == e.status = 403
IsPermissionDenied(e) == e.status = 403 \/ e.code = 50013

\* `if e.status == 429`
IsRateLimitedNever(e) == FALSE
IsRateLimited(e) == e.status = 429

\* `if e.code == 20016`
IsSlowModeNever(e) == FALSE
IsSlowMode(e) == e.code = 20016

\* `retry_after = e.retry_after if hasattr(e, 'retry_after') else 5`
RateLimitWait(e) == IF e.retry_after # Absent THEN e.retry_after ELSE DefaultRetryAfter

\* `wait_time = int(match.group(1)) if match else 5`, slept for `wait_time + 1`
SlowModeWaitWithoutBuffer(e) == IF e.secs # Absent THEN e.secs ELSE DefaultSlowWait
SlowModeWait(e) == (IF e.secs # Absent THEN e.secs ELSE DefaultSlowWait) + SlowModeBuffer

\* `if attempt == max_retries - 1: raise`
IsFinalAttemptOffByOne(a, m) == a = m
IsFinalAttempt(a, m) == a = m - 1

\* `for attempt in range(max_retries)`: whether the loop has another iteration
LoopHasNextInclusive(a, m) == a + 1 <= m
LoopHasNext(a, m) == a + 1 < m

SendEvent(o)     == [op |-> "send",  out |-> o, wait |-> 0]
SleepEvent(o, d) == [op |-> "sleep", out |-> o, wait |-> d]

Pending     == [kind |-> "pending", out |-> OkOutcome]
Returned(o) == [kind |-> "value",   out |-> o]
ReturnedNone == [kind |-> "none",   out |-> OkOutcome]
Raised(e)   == [kind |-> "raise",   out |-> e]

InitDeliverVars ==
    /\ pc = "idle"
    /\ max_retries = DefaultMaxRetries
    /\ attempt = 0
    /\ pending \in Outcomes
    /\ sleep_for = 0
    /\ trace = <<>>
    /\ result = Pending

\* The call: `for attempt in range(max_retries)` starts with attempt = 0.
Call ==
    /\ pc = "idle"
    /\ \E m \in 1..MaxRetriesBound : max_retries' = m
    /\ attempt' = 0
    /\ pc' = "try"
    /\ UNCHANGED <<pending, sleep_for, trace, result>>

\* channel.send is called: it produces `pending`, and the one after is chosen.
DoSend ==
    /\ trace' = Append(trace, SendEvent(pending))
    /\ pending' \in Outcomes

\* End of a loop iteration that neither returned nor raised: the next iteration,
\* or the `return None` after the loop.
LoopAdvance ==
    IF LoopHasNext(attempt, max_retries)
    THEN /\ attempt' = attempt + 1
         /\ pc' = "try"
         /\ result' = result
    ELSE /\ attempt' = attempt
         /\ pc' = "done"
         /\ result' = ReturnedNone

\* `return await channel.send(...)`
AttemptOk ==
    /\ pc = "try"
    /\ pending.kind = "ok"
    /\ DoSend
    /\ pc' = "done"
    /\ result' = Returned(pending)
    /\ UNCHANGED <<max_retries, attempt, sleep_for, svars>>

\* HTTPException, 403 or 50013: `return None`
AttemptPermissionDenied ==
    /\ pc = "try"
    /\ pending.kind = "http"
    /\ IsPermissionDenied(pending)
    /\ DoSend
    /\ pc' = "done"
    /\ result' = ReturnedNone
    /\ UNCHANGED <<max_retries, attempt, sleep_for, svars>>

\* HTTPException, 429: `await asyncio.sleep(retry_after)`
AttemptRateLimited ==
    /\ pc = "try"
    /\ pending.kind = "http"
    /\ ~IsPermissionDenied(pending)
    /\ IsRateLimited(pending)
    /\ DoSend
    /\ pc' = "sleep"
    /\ sleep_for' = RateLimitWait(pending)
    /\ UNCHANGED <<max_retries, attempt, result, svars>>

\* HTTPException, 20016: `await asyncio.sleep(wait_time + 1)`
AttemptSlowMode ==
    /\ pc = "try"
    /\ pending.kind = "http"
    /\ ~IsPermissionDenied(pending)
    /\ ~IsRateLimited(pending)
    /\ IsSlowMode(pending)
    /\ DoSend
    /\ pc' = "sleep"
    /\ sleep_for' = SlowModeWait(pending)
    /\ UNCHANGED <<max_retries, attempt, result, svars>>

\* Any other HTTPException, or any other Exception: raise on the final
\* attempt, else fall through to the next iteration.
AttemptOther ==
    /\ pc = "try"
    /\ \/ pending.kind = "other"
       \/ /\ pending.kind = "http"
          /\ ~IsPermissionDenied(pending)
          /\ ~IsRateLimited(pending)
          /\ ~IsSlowMode(pending)
    /\ DoSend
    /\ IF IsFinalAttempt(attempt, max_retries)
       THEN /\ pc' = "done"
            /\ result' = Raised(pending)
            /\ attempt' = attempt
       ELSE LoopAdvance
    /\ UNCHANGED <<max_retries, sleep_for, svars>>

\* asyncio.sleep returns, then `continue`
Sleep ==
    /\ pc = "sleep"
    /\ trace' = Append(trace, SleepEvent(trace[Len(trace)].out, sleep_for))
    /\ sleep_for' = 0
    /\ LoopAdvance
    /\ UNCHANGED <<max_retries, pending, svars>>

(***************************************************************************)
(* Claims about send_with_retry                                            *)
(***************************************************************************)
IsSend(ev)  == ev.op = "send"
IsSleep(ev) == ev.op = "sleep"
SendEvents  == SelectSeq(trace, IsSend)
SleepEvents == SelectSeq(trace, IsSleep)
NumSends    == Len(SendEvents)
NumSleeps   == Len(SleepEvents)
LastEvent   == trace[Len(trace)]

\* The failure classes as the specification names them.
PermissionFailure(o) == o.kind = "http" /\ (o.status = 403 \/ o.code = 50013)
RateLimitFailure(o)  == o.kind = "http" /\ o.status = 429 /\ ~PermissionFailure(o)
SlowModeFailure(o)   == o.kind = "http" /\ o.code = 20016 /\ o.status \notin {403, 429}
GenericFailure(o) ==
    \/ o.kind = "other"
    \/ o.kind = "http" /\ o.status \notin {403, 429} /\ o.code \notin {50013, 20016}

\* C1: send_with_retry returns None only when a permission-denied failure was
\* encountered; when the attempts are exhausted without a success (the last of
\* max_retries sends failed, with a failure other than permission denied, so
\* also with a rate-limit or slow-mode failure) it raises the last error.
C1_NoneOnlyOnPermissionDenied ==
    pc = "done" =>
        /\ result.kind = "none" =>
               \E i \in 1..Len(trace) : IsSend(trace[i]) /\ PermissionFailure(trace[i].out)
        /\ ( /\ NumSends = max_retries
             /\ SendEvents[NumSends].out.kind # "ok"
             /\ ~PermissionFailure(SendEvents[NumSends].out) )
               => result = Raised(SendEvents[NumSends].out)

C3_PermissionDeniedIsTerminal ==
    \A i \in 1..Len(trace) :
        (IsSend(trace[i]) /\ PermissionFailure(trace[i].out))
            => (i = Len(trace) /\ pc = "done" /\ result = ReturnedNone)

C3_Witness ==
    /\ pc = "done"
    /\ Len(trace) >= 4
    /\ NumSleeps >= 1
    /\ IsSend(LastEvent)
    /\ LastEvent.out = HttpError(500, 50013, Absent, Absent)
    /\ result = ReturnedNone

C5_AttemptBudget ==
    NumSends <= max_retries
C5_SuccessEnds ==
    \A i \in 1..Len(trace) :
        (IsSend(trace[i]) /\ trace[i].out.kind = "ok")
            => (i = Len(trace) /\ pc = "done" /\ result = Returned(trace[i].out))
\* C5 (whole claim): the budget and the success rule hold in every state, and
\* a call that is about to call channel.send leads to the end of the call.
C5_BoundedAndTerminates ==
    /\ [](C5_AttemptBudget /\ C5_SuccessEnds)
    /\ (pc = "try") ~> (pc = "done")

C5_Witness ==
    /\ max_retries = 3
    /\ pc = "done"
    /\ NumSends = 3
    /\ RateLimitFailure(SendEvents[1].out)
    /\ SlowModeFailure(SendEvents[2].out)
    /\ SendEvents[3].out.kind = "ok"
    /\ result = Returned(OkOutcome)

\* C26: a call that raises raises the failure of its final attempt
\* (attempt number max_retries), and that failure is a generic HTTP failure or
\* a non-HTTP exception: never permission denied, rate limited or slow mode.
C26_OnlyGenericFailuresPropagate ==
    result.kind = "raise"
        => /\ pc = "done"
           /\ GenericFailure(result.out)
           /\ ~PermissionFailure(result.out)
           /\ ~RateLimitFailure(result.out)
           /\ ~SlowModeFailure(result.out)
           /\ NumSends = max_retries
           /\ LastEvent = SendEvent(result.out)

C26_Witness ==
    /\ pc = "done"
    /\ max_retries = 3
    /\ NumSends = 3
    /\ RateLimitFailure(SendEvents[1].out)
    /\ SlowModeFailure(SendEvents[2].out)
    /\ SendEvents[3].out = HttpError(500, 0, Absent, Absent)
    /\ result = Raised(SendEvents[3].out)

\* C27: a wait follows a rate-limit failure and lasts its retry_after, or 5
\* when it has none, or follows a slow-mode failure and lasts n + 1 for the n
\* in its text, or 6 when it shows none; a generic failure is followed by no
\* wait.
WaitFor(o) ==
    IF RateLimitFailure(o)
    THEN IF o.retry_after # Absent THEN o.retry_after ELSE 5
    ELSE IF o.secs # Absent THEN o.secs + 1 ELSE 6

C27_BackoffDurations ==
    /\ \A i \in 1..Len(trace) :
           IsSleep(trace[i])
               => /\ i > 1
                  /\ IsSend(trace[i - 1])
                  /\ RateLimitFailure(trace[i - 1].out) \/ SlowModeFailure(trace[i - 1].out)
                  /\ trace[i].wait = WaitFor(trace[i - 1].out)
    /\ \A i \in 1..Len(trace) :
           (IsSend(trace[i]) /\ GenericFailure(trace[i].out))
               => /\ pc # "sleep" \/ i < Len(trace)
                  /\ i < Len(trace) => IsSend(trace[i + 1])
    /\ pc = "sleep" => sleep_for = WaitFor(LastEvent.out)

C27_Witness ==
    /\ pc = "done"
    /\ NumSleeps = 3
    /\ SleepEvents[1].out = HttpError(429, 0, 2, Absent)
    /\ SleepEvents[1].wait = 2
    /\ SleepEvents[2].out = HttpError(500, 20016, Absent, 3)
    /\ SleepEvents[2].wait = 4
    /\ SleepEvents[3].out = HttpError(500, 20016, Absent, Absent)
    /\ SleepEvents[3].wait = 6

\* C28: every wait is followed by another channel.send: a wait that has ended
\* is followed by a send in the trace, or the call is about to send.
C28_EveryWaitIsFollowedBySend ==
    \A i \in 1..Len(trace) :
        IsSleep(trace[i])
            => /\ i < Len(trace) => IsSend(trace[i + 1])
               /\ i = Len(trace) => pc = "try"

(***************************************************************************)
(* BinXChatClient                                                          *)
(***************************************************************************)
Prompts == {"hello", "again"}
Deltas  == {"a", ""}

UserTurn(m)      == [role |-> "user", content |-> m]
AssistantTurn(t) == [role |-> "assistant", content |-> t]

\* One line of response.iter_lines(), by what the decode loop reads of it:
\*   empty        the line is b""
\*   marker       it starts with "data: "
\*   sentinel     the rest of it, stripped, is "[DONE]"
\*   json         what json.loads makes of the rest of it
\*   choices      data['choices']: absent, an empty list, a list, or not a list
\*   first        data['choices'][0]: an object or not
\*   delta        data['choices'][0]['delta']: absent, an object or null
\*   has_content  'content' in delta
\*   content_type, content   delta['content']: a string, or null
Line(e, m, s, j, ch, f, d, hc, ct, c) ==
    [empty |-> e, marker |-> m, sentinel |-> s, json |-> j, choices |-> ch,
     first |-> f, delta |-> d, has_content |-> hc, content_type |-> ct, content |-> c]

BlankLine       == Line(TRUE,  FALSE, FALSE, "invalid", "absent", "other", "absent", FALSE, "string", "")
NoMarkerLine    == Line(FALSE, FALSE, FALSE, "invalid", "absent", "other", "absent", FALSE, "string", "")
DoneLine        == Line(FALSE, TRUE,  TRUE,  "invalid", "absent", "other", "absent", FALSE, "string", "")
MalformedLine   == Line(FALSE, TRUE,  FALSE, "invalid", "absent", "other", "absent", FALSE, "string", "")
JsonLine(j)     == Line(FALSE, TRUE,  FALSE, j,         "absent", "other", "absent", FALSE, "string", "")
ChoicesLine(ch) == Line(FALSE, TRUE,  FALSE, "object",  ch,       "other", "absent", FALSE, "string", "")
DeltaLine(d)    == Line(FALSE, TRUE,  FALSE, "object",  "list",   "object", d,       FALSE, "string", "")
ContentLine(c)  == Line(FALSE, TRUE,  FALSE, "object",  "list",   "object", "object", TRUE, "string", c)
ContentNullLine == Line(FALSE, TRUE,  FALSE, "object",  "list",   "object", "object", TRUE, "null",   "")

Lines ==
    {BlankLine, NoMarkerLine, DoneLine, MalformedLine, ContentNullLine}
    \cup { JsonLine(j) : j \in {"null", "number", "string", "array"} }
    \cup { ChoicesLine(ch) : ch \in {"absent", "empty", "list", "notlist"} }
    \cup { DeltaLine(d) : d \in {"absent", "object", "null"} }
    \cup { ContentLine(c) : c \in Deltas }

Skip       == [act |-> "skip",    text |-> ""]
Break      == [act |-> "break",   text |-> ""]
Emit(c)    == [act |-> "content", text |-> c]
ChunkError == [act |-> "raise",   text |-> ""]

\* The body of `for line in response.iter_lines()` for one line: skip it, leave
\* the loop, add a content delta, or raise (TypeError / AttributeError are not
\* caught by `except json.JSONDecodeError`).
\* `if data_str.strip() == '[DONE]': break`
OnDoneSkipped == Skip
OnDone == Break

\* `except json.JSONDecodeError as e: pass`
OnJSONDecodeErrorRaised == ChunkError
OnJSONDecodeError == Skip

ProcessLine(line) ==
    IF line.empty THEN Skip
    ELSE IF ~line.marker THEN Skip
    ELSE IF line.sentinel THEN OnDone
    ELSE IF line.json = "invalid" THEN OnJSONDecodeError
    ELSE IF line.json \in {"null", "number"} THEN ChunkError
    ELSE IF line.json \in {"string", "array"} THEN Skip
    ELSE IF line.choices \in {"absent", "empty"} THEN Skip
    ELSE IF line.choices = "notlist" THEN ChunkError
    ELSE IF line.first # "object" THEN ChunkError
    ELSE IF line.delta = "absent" THEN Skip
    ELSE IF line.delta = "null" THEN ChunkError
    ELSE IF ~line.has_content THEN Skip
    ELSE IF line.content_type # "string" THEN ChunkError
    ELSE Emit(line.content)

\* `self.conversation_history.append({"role": "user", "content": message})`
WithUserTurnDropped(h, m) == h
WithUserTurn(h, m) == Append(h, UserTurn(m))

\* `full_response += content`
AccumulatedInFront(acc, c) == c \o acc
Accumulated(acc, c) == acc \o c

\* `if stream_callback: stream_callback(content)`
WithCallbackUnlessEmpty(cbs, c) == IF c = "" THEN cbs ELSE Append(cbs, c)
WithCallback(cbs, c) == Append(cbs, c)

\* `if full_response:`
HasReplyAlways(text) == TRUE
HasReply(text) == text # ""

\* `self.conversation_history.append({"role": "assistant", ...})`
WithAssistantTurn(h, text) == Append(h, AssistantTurn(text))

\* `self.response_history.insert(0, full_response)`
WithResponseAtEnd(rh, text) == Append(rh, text)
WithResponse(rh, text) == <<text>> \o rh

\* reset_conversation: `self.response_history = []`
ResponsesKept == response_history
ResponsesAfterReset == <<>>

InitSessionVars ==
    /\ conversation_history = <<>>
    /\ response_history = <<>>
    /\ spc = "idle"
    /\ message = ""
    /\ full_response = ""
    /\ chunk_count = 0
    /\ lines_seen = 0
    /\ before = [turns |-> <<>>, responses |-> <<>>]
    /\ last_call = [op |-> "init", prompt |-> "", outcome |-> "returned", error |-> "",
                    value |-> "", decoded |-> FALSE]
    /\ last_reply = ""
    /\ stream_callback = FALSE
    /\ callbacks = <<>>

InitResponseVars ==
    /\ body = <<>>
    /\ rest = <<>>

\* How a call ended: the value it returned or the kind of exception it raised,
\* with the prompt of a send and whether content deltas had been decoded.
ReturnedCall(o, m, v, d) ==
    [op |-> o, prompt |-> m, outcome |-> "returned", error |-> "", value |-> v, decoded |-> d]
RaisedCall(m, k, d) ==
    [op |-> "send", prompt |-> m, outcome |-> "raised", error |-> k, value |-> "", decoded |-> d]

\* The locals of send_message are gone when it has returned or raised.
LocalsGone ==
    /\ spc' = "idle"
    /\ message' = ""
    /\ full_response' = ""
    /\ chunk_count' = 0
    /\ lines_seen' = 0

Snapshot == [turns |-> conversation_history, responses |-> response_history]

\* send_message up to the status check: the user turn is appended, then
\* requests.post raises, or answers with a status other than 200, or with 200.
PostFailures == {"connection", "timeout", "request", "interrupt", "status"}

SendBegin(m, cb) ==
    /\ spc = "idle"
    /\ Len(conversation_history) + 2 <= MaxTurns
    /\ Len(response_history) < MaxResponses
    /\ before' = Snapshot
    /\ conversation_history' = WithUserTurn(conversation_history, m)
    /\ \/ /\ spc' = "stream"
          /\ message' = m
          /\ full_response' = ""
          /\ chunk_count' = 0
          /\ lines_seen' = 0
          /\ UNCHANGED last_call
       \/ /\ \E k \in PostFailures : last_call' = RaisedCall(m, k, FALSE)
          /\ LocalsGone
    /\ stream_callback' = cb
    /\ callbacks' = <<>>
    /\ UNCHANGED <<response_history, last_reply>>

\* The code after the loop: record a non-empty reply, return full_response.
Complete(text) ==
    /\ IF HasReply(text)
       THEN /\ conversation_history' = WithAssistantTurn(conversation_history, text)
            /\ response_history' = WithResponse(response_history, text)
            /\ last_reply' = text
       ELSE UNCHANGED <<conversation_history, response_history, last_reply>>
    /\ last_call' = ReturnedCall("send", message, text, chunk_count > 0)
    /\ LocalsGone

\* iter_lines produces a line and the loop body runs on it.
ReadLine(line) ==
    /\ spc = "stream"
    /\ lines_seen < MaxLines
    /\ LET r == ProcessLine(line) IN
       /\ callbacks' = IF r.act = "content" /\ stream_callback
                       THEN WithCallback(callbacks, r.text)
                       ELSE callbacks
       /\ CASE r.act = "skip" ->
                   /\ lines_seen' = lines_seen + 1
                   /\ UNCHANGED <<conversation_history, response_history, spc, message,
                                  full_response, chunk_count, last_call, last_reply>>
            [] r.act = "content" ->
                   /\ lines_seen' = lines_seen + 1
                   /\ full_response' = Accumulated(full_response, r.text)
                   /\ chunk_count' = chunk_count + 1
                   /\ UNCHANGED <<conversation_history, response_history, spc, message,
                                  last_call, last_reply>>
            [] r.act = "break" ->
                   Complete(full_response)
            [] r.act = "raise" ->
                   /\ last_call' = RaisedCall(message, "chunk", chunk_count > 0)
                   /\ LocalsGone
                   /\ UNCHANGED <<conversation_history, response_history, last_reply>>
    /\ UNCHANGED <<before, stream_callback>>

\* iter_lines is exhausted: the stream closed.
StreamEnd ==
    /\ spc = "stream"
    /\ Complete(full_response)
    /\ UNCHANGED <<before, stream_callback, callbacks>>

\* iter_lines raises: a transport failure (a RequestException, re-raised as
\* Exception by the except clauses) or KeyboardInterrupt.
StreamFailures == {"connection", "timeout", "request", "interrupt"}

StreamFail ==
    /\ spc = "stream"
    /\ \E k \in StreamFailures : last_call' = RaisedCall(message, k, chunk_count > 0)
    /\ LocalsGone
    /\ UNCHANGED <<conversation_history, response_history, before, last_reply,
                   stream_callback, callbacks>>

\* reset_conversation
ResetConversation ==
    /\ spc = "idle"
    /\ before' = Snapshot
    /\ conversation_history' = <<>>
    /\ response_history' = ResponsesAfterReset
    /\ last_call' = ReturnedCall("reset", "", "", FALSE)
    /\ UNCHANGED <<spc, message, full_response, chunk_count, lines_seen, last_reply,
                   stream_callback, callbacks>>

\* set_conversation_history(history): `self.conversation_history = history.copy()`
RestoredHistories ==
    { <<>>,
      <<UserTurn("hello"), AssistantTurn("a")>>,
      <<UserTurn("hello"), AssistantTurn("aa"), UserTurn("again")>> }

SetConversationHistory(h) ==
    /\ spc = "idle"
    /\ before' = Snapshot
    /\ conversation_history' = h
    /\ last_call' = ReturnedCall("set_history", "", "", FALSE)
    /\ UNCHANGED <<response_history, spc, message, full_response, chunk_count,
                   lines_seen, last_reply, stream_callback, callbacks>>

(***************************************************************************)
(* Claims about BinXChatClient                                             *)
(***************************************************************************)
SendReturned == spc = "idle" /\ last_call.op = "send" /\ last_call.outcome = "returned"
SendRaised   == spc = "idle" /\ last_call.op = "send" /\ last_call.outcome = "raised"

\* C6: after any sequence of send and reset calls the turns alternate, starting
\* with a user turn: turn 1, 3, ... are user turns and turn 2, 4, ... are
\* assistant turns, so no two consecutive turns have the same role.
C6_TurnsAlternate ==
    spc = "idle" =>
        \A i \in 1..Len(conversation_history) :
            conversation_history[i].role = (IF i % 2 = 1 THEN "user" ELSE "assistant")

\* C7: a send that failed with a connection error, a timeout, a status other
\* than 200, a transport failure of the stream or an interruption raised, left
\* the turns as they were before the call plus one user turn with the prompt,
\* and left response_history as it was.
ClaimedFailures == {"connection", "timeout", "request", "interrupt", "status"}

C8_ReplyIsRecorded ==
    (SendReturned /\ last_call.value # "")
        => /\ conversation_history =
                  before.turns \o <<UserTurn(last_call.prompt), AssistantTurn(last_call.value)>>
           /\ response_history = <<last_call.value>> \o before.responses
           /\ (before.turns = <<>> /\ last_call.prompt = "hello")
                  => conversation_history =
                         <<[role |-> "user", content |-> "hello"],
                           [role |-> "assistant", content |-> last_call.value]>>

C8_Witness ==
    /\ SendReturned
    /\ last_call.value # ""
    /\ before.turns # <<>>
    /\ before.responses # <<>>
    /\ before.responses[1] # last_call.value

\* C9: a send whose response had status 200 and whose decoded text is empty
\* returned the empty string, added only the user turn, and left
\* response_history as it was.
C9_EmptyReplyAddsOnlyUserTurn ==
    (SendReturned /\ last_call.value = "")
        => /\ conversation_history = Append(before.turns, UserTurn(last_call.prompt))
           /\ response_history = before.responses

C9_Witness ==
    /\ SendReturned
    /\ last_call.value = ""
    /\ last_call.decoded
    /\ before.responses # <<>>

\* C10: after any sequence of send, reset and set_conversation_history calls,
\* a non-empty response_history starts with the text of the last non-empty
\* reply a send completed, and response_history is empty right after a reset.
C10_NewestResponseFirst ==
    /\ response_history # <<>> => response_history[1] = last_reply
    /\ last_call.op = "reset" => response_history = <<>>

C10_Witness ==
    /\ spc = "idle"
    /\ last_call.op = "set_history"
    /\ Len(response_history) = 2
    /\ response_history[1] # response_history[2]
    /\ response_history[1] = last_reply

(***************************************************************************)
(* ConversationManager                                                     *)
(***************************************************************************)
\* `ConversationManager(timeout_minutes=20)`
TimeoutMinutes == 20

Keys == {"c1", "c2"}

\* The instants datetime.now() is read at, in minutes: both sides of the timeout
\* seen from 0, and from a refresh at 19, 20 or 21.
Instants == {0, 19, 20, 21, 40, 42}

\* BinXChatClient.__init__: both histories empty
NewClient == [turns |-> <<>>, responses |-> <<>>]

\* get_or_create: `current_time - last_activity > timedelta(minutes=self.timeout_minutes)`
IsTimedOutInclusive(t, la) == t - la >= TimeoutMinutes
IsTimedOutNever(t, la) == FALSE
IsTimedOut(t, la) == t - la > TimeoutMinutes

\* cleanup_expired: `current_time - conv['last_activity'] > timedelta(...)`
IsExpiredAtSweepInclusive(t, la) == t - la >= TimeoutMinutes
IsExpiredAtSweep(t, la) == t - la > TimeoutMinutes

\* get_or_create: `conv['last_activity'] = current_time`
NotRefreshed(rec, t) == rec
Refreshed(rec, t) == [rec EXCEPT !.last_activity = t]

\* reset_conversation on a stored client
ClientAfterResetKeepingResponses(c) == [c EXCEPT !.turns = <<>>]
ClientAfterReset(c) == [turns |-> <<>>, responses |-> <<>>]

\* reset: self.conversations after the call
RecordsAfterResetTouchingAll(k) ==
    [x \in DOMAIN conversations |-> [conversations[x] EXCEPT !.last_activity = now]]
RecordsAfterResetNotRefreshed(k) == conversations
RecordsAfterReset(k) ==
    IF k \in DOMAIN conversations
    THEN [conversations EXCEPT ![k].last_activity = now]
    ELSE conversations

\* self.conversations with conversations[k] set to rec
WithRecord(convs, k, rec) ==
    [x \in DOMAIN convs \cup {k} |-> IF x = k THEN rec ELSE convs[x]]

\* self.conversations without the keys of gone (`del self.conversations[...]`)
WithoutRecordsAndTimedOut(convs, gone) ==
    [x \in { y \in DOMAIN convs \ gone : now - convs[y].last_activity <= TimeoutMinutes }
        |-> convs[x]]
WithoutRecords(convs, gone) == [x \in DOMAIN convs \ gone |-> convs[x]]

\* A call of the store: the method, its key, what it returned (the number of
\* the client for get_or_create, of the client it reset for reset, the number of
\* records removed for cleanup_expired), whether the key had a record, how old
\* that record's last_activity was, whether its client had turns, and the time.
StoreCall(o, k, r, f, a, h) ==
    [op |-> o, key |-> k, ret |-> r, found |-> f, age |-> a, had |-> h, at |-> now]

HasTurns(k) ==
    k \in DOMAIN conversations /\ clients[conversations[k].client].turns # <<>>

NoScript == [on |-> FALSE, calls |-> <<>>]

\* The first calls of an execution whose store calls are get_or_create("c1") only.
ScriptAfterGet(call) ==
    IF script.on /\ call.key = "c1" /\ Len(script.calls) < 3
    THEN [script EXCEPT !.calls = Append(@, call)]
    ELSE NoScript

InitStoreVars ==
    /\ conversations = <<>>
    /\ clients = <<>>
    /\ now = 0
    /\ store_call = StoreCall("init", "", 0, FALSE, 0, FALSE)
    /\ script = [on |-> TRUE, calls |-> <<>>]

\* get_or_create(channel_id, binx_token)
GetOrCreate(k) ==
    LET present == k \in DOMAIN conversations
        age     == IF present THEN now - conversations[k].last_activity ELSE 0
    IN
    IF present /\ ~IsTimedOut(now, conversations[k].last_activity)
    THEN /\ conversations' = [conversations EXCEPT ![k] = Refreshed(@, now)]
         /\ store_call' =
                StoreCall("get_or_create", k, conversations[k].client, TRUE, age, HasTurns(k))
         /\ script' = ScriptAfterGet(store_call')
         /\ UNCHANGED <<clients, now>>
    ELSE /\ Len(clients) < MaxClients
         /\ clients' = Append(clients, NewClient)
         /\ conversations' =
                WithRecord(WithoutRecords(conversations, {k}), k,
                           [client |-> Len(clients) + 1, last_activity |-> now])
         /\ store_call' = StoreCall("get_or_create", k, Len(clients) + 1, present, age, FALSE)
         /\ script' = ScriptAfterGet(store_call')
         /\ UNCHANGED now

\* reset(channel_id)
Reset(k) ==
    LET present == k \in DOMAIN conversations IN
    /\ conversations' = RecordsAfterReset(k)
    /\ clients' = IF present
                  THEN [clients EXCEPT ![conversations[k].client] = ClientAfterReset(@)]
                  ELSE clients
    /\ store_call' = StoreCall("reset", k, IF present THEN conversations[k].client ELSE 0,
                               present,
                               IF present THEN now - conversations[k].last_activity ELSE 0,
                               HasTurns(k))
    /\ script' = NoScript
    /\ UNCHANGED now

\* cleanup_expired()
ExpiredKeys ==
    { k \in DOMAIN conversations : IsExpiredAtSweep(now, conversations[k].last_activity) }

CleanupExpired ==
    /\ conversations' = WithoutRecords(conversations, ExpiredKeys)
    /\ store_call' = StoreCall("cleanup", "", Cardinality(ExpiredKeys), ExpiredKeys # {}, 0, FALSE)
    /\ script' = NoScript
    /\ UNCHANGED <<clients, now>>

\* Time passes.
Tick ==
    /\ \E t \in Instants : t > now /\ now' = t
    /\ UNCHANGED <<conversations, clients, store_call, script>>

\* A handler that holds client number id runs one send_message on it that is
\* answered with a non-empty reply.
ClientSend(id) ==
    /\ id \in 1..Len(clients)
    /\ Len(clients[id].turns) + 2 <= MaxStoreTurns
    /\ clients' = [clients EXCEPT ![id] =
           [turns     |-> WithAssistantTurn(WithUserTurn(@.turns, "hello"), "a"),
            responses |-> WithResponse(@.responses, "a")]]
    /\ UNCHANGED <<conversations, now, store_call, script>>

(***************************************************************************)
(* Claims about ConversationManager                                        *)
(***************************************************************************)
HasRecord(k) == k \in DOMAIN conversations
Age(k) == now - conversations[k].last_activity
StoredClients == { conversations[k].client : k \in DOMAIN conversations }

\* C11: get_or_create(key) on a record with now - lastActivity <= timeout
\* (equality included) returns the stored client, keeps the record's client and
\* every client's turns, and sets the record's lastActivity to now.
C11_LiveRecordIsReused ==
    [][\A k \in Keys :
          (GetOrCreate(k) /\ HasRecord(k) /\ Age(k) <= TimeoutMinutes)
              => /\ store_call'.ret = conversations[k].client
                 /\ conversations'[k].client = conversations[k].client
                 /\ conversations'[k].last_activity = now
                 /\ clients' = clients]_vars

C11_Witness ==
    /\ store_call.op = "get_or_create"
    /\ store_call.found
    /\ store_call.age = TimeoutMinutes
    /\ store_call.had
    /\ store_call.at = now
    /\ HasRecord(store_call.key)
    /\ conversations[store_call.key].client = store_call.ret
    /\ clients[store_call.ret].turns # <<>>

\* C12: get_or_create(key) on a record with now - lastActivity > timeout drops
\* the record and returns a client that did not exist before, with empty turns
\* and empty response history, stored with lastActivity = now; no record of the
\* store refers to the old client afterwards.
C12_ExpiredRecordIsReplaced ==
    [][\A k \in Keys :
          (GetOrCreate(k) /\ HasRecord(k) /\ Age(k) > TimeoutMinutes)
              => /\ store_call'.ret \notin 1..Len(clients)
                 /\ store_call'.ret # conversations[k].client
                 /\ clients'[store_call'.ret] = [turns |-> <<>>, responses |-> <<>>]
                 /\ conversations'[k] = [client |-> store_call'.ret, last_activity |-> now]
                 /\ \A j \in DOMAIN conversations' :
                        conversations'[j].client # conversations[k].client]_vars

C12_Witness ==
    /\ store_call.op = "get_or_create"
    /\ store_call.found
    /\ store_call.age > TimeoutMinutes
    /\ store_call.at = now
    /\ clients[store_call.ret] = NewClient
    /\ \E old \in 1..Len(clients) :
           /\ old < store_call.ret
           /\ clients[old].turns # <<>>
           /\ old \notin StoredClients

\* C13 as stated: get_or_create("c1") at t=0, t=19 and t=21 on one store:
\* the call at 19 returns the client of the call at 0, and the call at 21
\* returns another client, with empty history.
ScriptAt(t1, t2, t3) ==
    /\ script.on
    /\ Len(script.calls) = 3
    /\ script.calls[1].at = t1
    /\ script.calls[2].at = t2
    /\ script.calls[3].at = t3

C13_NewSessionAt21 ==
    ScriptAt(0, 19, 21)
        => /\ script.calls[2].ret = script.calls[1].ret
           /\ script.calls[3].ret # script.calls[1].ret
           /\ ~script.calls[3].had

\* C13 amended: the call at 19 returns the client of the call at 0 and
\* refreshes lastActivity, so the call at 21 returns that client again; a
\* call at 21 that directly follows the call at 0 returns another client,
\* with empty history.
C13_SlidingWindow ==
    /\ ScriptAt(0, 19, 21)
           => /\ script.calls[2].ret = script.calls[1].ret
              /\ script.calls[3].ret = script.calls[1].ret
              /\ script.calls[3].age = 2
    /\ ( /\ script.on
         /\ Len(script.calls) >= 2
         /\ script.calls[1].at = 0
         /\ script.calls[2].at = 21 )
           => /\ script.calls[2].ret # script.calls[1].ret
              /\ script.calls[2].age = 21
              /\ ~script.calls[2].had

C13_Witness ==
    /\ ScriptAt(0, 19, 21)
    /\ script.calls[3].had
    /\ now = 21

\* C14: reset(key) on a key that has a record returns true, keeps the record's
\* client, empties that client's turns and response history, and sets the
\* record's lastActivity to now.
C14_ResetEmptiesInPlace ==
    [][\A k \in Keys :
          (Reset(k) /\ HasRecord(k))
              => /\ store_call'.found
                 /\ conversations'[k].client = conversations[k].client
                 /\ clients'[conversations[k].client] = [turns |-> <<>>, responses |-> <<>>]
                 /\ conversations'[k].last_activity = now]_vars

C14_Witness ==
    /\ store_call.op = "reset"
    /\ store_call.found
    /\ store_call.had
    /\ store_call.age > 0
    /\ store_call.at = now
    /\ conversations[store_call.key].client = store_call.ret
    /\ clients[store_call.ret] = NewClient

\* C15: reset(key) on a key that has no record returns false and changes no
\* record and no client.
C15_ResetOfMissingKeyChangesNothing ==
    [][\A k \in Keys :
          (Reset(k) /\ ~HasRecord(k))
              => /\ ~store_call'.found
                 /\ conversations' = conversations
                 /\ clients' = clients]_vars

C15_Witness ==
    /\ store_call.op = "reset"
    /\ ~store_call.found
    /\ store_call.at = now
    /\ ~HasRecord(store_call.key)
    /\ \E j \in DOMAIN conversations :
           /\ Age(j) > TimeoutMinutes
           /\ clients[conversations[j].client].turns # <<>>

\* C16: cleanup_expired leaves exactly the records with
\* now - lastActivity <= timeout, each as it was, and changes no client.
C16_SweepRemovesExactlyExpired ==
    [][CleanupExpired
          => /\ conversations' =
                    [k \in { j \in DOMAIN conversations : Age(j) <= TimeoutMinutes }
                        |-> conversations[k]]
             /\ clients' = clients]_vars

C16_Witness ==
    /\ store_call.op = "cleanup"
    /\ store_call.ret >= 1
    /\ store_call.at = now
    /\ \E j \in DOMAIN conversations :
           /\ Age(j) = TimeoutMinutes
           /\ clients[conversations[j].client].turns # <<>>

\* C29: get_or_create(k) and reset(k) leave every other key j as it was: its
\* record is present or absent as before, with the same client and
\* last_activity, and that client's turns and response history are unchanged,
\* also when j's record is expired.
C29_OtherKeysUntouched ==
    [][\A k \in Keys : \A j \in Keys \ {k} :
          (GetOrCreate(k) \/ Reset(k))
              => /\ HasRecord(j) <=> j \in DOMAIN conversations'
                 /\ HasRecord(j)
                       => /\ conversations'[j] = conversations[j]
                          /\ clients'[conversations[j].client]
                                 = clients[conversations[j].client]]_vars

C29_Witness ==
    /\ store_call.op \in {"get_or_create", "reset"}
    /\ store_call.at = now
    /\ store_call.found
    /\ \E j \in DOMAIN conversations :
           /\ j # store_call.key
           /\ Age(j) > TimeoutMinutes
           /\ clients[conversations[j].client].turns # <<>>

\* C31: reset(key) on a record older than the timeout returns true, keeps the
\* record's client with both histories emptied and sets lastActivity to now;
\* when the next store call is get_or_create(key) and comes within the timeout
\* after that reset, it finds the record and returns that same client.
C31_ResetIgnoresExpiry ==
    /\ [][\A k \in Keys :
             (Reset(k) /\ HasRecord(k) /\ Age(k) > TimeoutMinutes)
                 => /\ store_call'.found
                    /\ k \in DOMAIN conversations'
                    /\ conversations'[k] =
                           [client |-> conversations[k].client, last_activity |-> now]
                    /\ clients'[conversations[k].client]
                           = [turns |-> <<>>, responses |-> <<>>]]_vars
    /\ [][\A k \in Keys :
             ( /\ GetOrCreate(k)
               /\ store_call.op = "reset"
               /\ store_call.key = k
               /\ store_call.found
               /\ store_call.age > TimeoutMinutes
               /\ now - store_call.at <= TimeoutMinutes )
                 => /\ store_call'.found
                    /\ store_call'.ret = store_call.ret
                    /\ Len(clients') = Len(clients)
                    /\ conversations'[k] = [client |-> store_call.ret, last_activity |-> now]]_vars

C31_Witness ==
    /\ store_call.op = "reset"
    /\ store_call.found
    /\ store_call.age > TimeoutMinutes
    /\ store_call.had
    /\ now > store_call.at
    /\ now - store_call.at <= TimeoutMinutes
    /\ HasRecord(store_call.key)
    /\ conversations[store_call.key] = [client |-> store_call.ret, last_activity |-> store_call.at]
    /\ clients[store_call.ret] = NewClient

(***************************************************************************)
(* The decode loop of send_message on one streamed response                *)
(***************************************************************************)
ContentB == Line(FALSE, TRUE, FALSE, "object", "list", "object", "object", TRUE, "string", "b")

DecodeLines == Lines \cup {ContentB}

\* The responses: every sequence of at most MaxLines lines.
Bodies == UNION { [1..n -> DecodeLines] : n \in 0..MaxLines }

\* send_message(message, stream_callback) on a new client, and its response.
DecodeBegin(m, cb) ==
    /\ last_call.op = "init"
    /\ SendBegin(m, cb)
    /\ \E b \in Bodies : body' = b /\ rest' = b

\* `for line in response.iter_lines()`: the next line of the response.
DecodeLine ==
    /\ rest # <<>>
    /\ ReadLine(Head(rest))
    /\ rest' = Tail(rest)
    /\ UNCHANGED body

\* The response has no more lines.
DecodeEnd ==
    /\ rest = <<>>
    /\ StreamEnd
    /\ UNCHANGED rvars

\* The connection fails while the response is read.
DecodeFail ==
    /\ StreamFail
    /\ UNCHANGED rvars

(***************************************************************************)
(* Claims about the decode loop                                            *)
(***************************************************************************)
\* The lines of the response that iter_lines() has produced.
Read == SubSeq(body, 1, Len(body) - Len(rest))

IsDone(line) == ~line.empty /\ line.marker /\ line.sentinel

\* A `data: ` line that is a JSON object with choices[0].delta, whose content,
\* when it has one, is a string.
IsWellFormed(line) ==
    /\ ~line.empty /\ line.marker /\ ~line.sentinel
    /\ line.json = "object" /\ line.choices = "list" /\ line.first = "object"
    /\ line.delta = "object"
    /\ line.has_content => line.content_type = "string"

\* A blank line, a line without the marker, or a `data: ` line that is not JSON.
IsIgnorable(line) ==
    \/ line.empty
    \/ ~line.marker
    \/ ~line.sentinel /\ line.json = "invalid"

RECURSIVE ContentsOf(_)
ContentsOf(ls) ==
    IF ls = <<>> THEN <<>>
    ELSE IF IsWellFormed(Head(ls)) /\ Head(ls).has_content
         THEN <<Head(ls).content>> \o ContentsOf(Tail(ls))
         ELSE ContentsOf(Tail(ls))

RECURSIVE Concat(_)
Concat(ts) == IF ts = <<>> THEN "" ELSE Head(ts) \o Concat(Tail(ts))

SendDecoded == spc = "idle" /\ last_call.op = "send" /\ last_call.outcome = "returned"

\* C17: when every line read so far is a well-formed `data: ` line, the text
\* accumulated by the loop, and the text send_message returns, is the
\* concatenation in arrival order of the contents those lines carry.
C17_TextIsConcatenationInOrder ==
    (\A i \in 1..Len(Read) : IsWellFormed(Read[i]))
        => /\ spc = "stream" => full_response = Concat(ContentsOf(Read))
           /\ SendDecoded => last_call.value = Concat(ContentsOf(Read))
           /\ last_call.error # "chunk"

C17_Witness ==
    /\ SendDecoded
    /\ body = <<ContentLine("a"), DeltaLine("object"), ContentB>>
    /\ rest = <<>>
    /\ last_call.value = "ab"

\* C18: a `data: [DONE]` line is the last line read: with it send_message
\* returns the text of the lines before it, records that text as the reply, and
\* the callback has been called for the lines before it only.
C18_DoneEndsDecoding ==
    \A i \in 1..Len(Read) :
        IsDone(Read[i])
            => /\ i = Len(Read)
               /\ SendDecoded
               /\ last_call.value = Concat(ContentsOf(SubSeq(Read, 1, i - 1)))
               /\ callbacks = IF stream_callback
                              THEN ContentsOf(SubSeq(Read, 1, i - 1))
                              ELSE <<>>
               /\ last_call.value # ""
                      => /\ conversation_history[Len(conversation_history)]
                                = AssistantTurn(last_call.value)
                         /\ response_history[1] = last_call.value

C18_Witness ==
    /\ SendDecoded
    /\ body = <<ContentLine("a"), DoneLine, ContentB>>
    /\ rest = <<ContentB>>
    /\ last_call.value = "a"
    /\ stream_callback
    /\ callbacks = <<"a">>

\* C19: reading a blank line, a line without the `data: ` marker or a `data: `
\* line that is not JSON leaves the loop running and changes neither the
\* accumulated text nor the callback calls nor the histories; the content of
\* the lines around such lines is decoded all the same.
IgnorableLineRead ==
    /\ spc = "stream"
    /\ rest # <<>>
    /\ IsIgnorable(Head(rest))
    /\ rest' = Tail(rest)

C19_IgnorableLinesAreSkipped ==
    /\ [][IgnorableLineRead
            => /\ spc' = "stream"
               /\ UNCHANGED <<full_response, chunk_count, callbacks, last_call,
                              conversation_history, response_history>>]_vars
    /\ []((\A i \in 1..Len(Read) : IsWellFormed(Read[i]) \/ IsIgnorable(Read[i]))
            => /\ spc = "stream" => full_response = Concat(ContentsOf(Read))
               /\ SendDecoded => last_call.value = Concat(ContentsOf(Read))
               /\ last_call.error # "chunk")

C19_Witness ==
    /\ SendDecoded
    /\ body \in { <<MalformedLine, l, ContentLine("a")>> : l \in {BlankLine, NoMarkerLine} }
    /\ rest = <<>>
    /\ last_call.value = "a"
    /\ stream_callback
    /\ callbacks = <<"a">>

\* C20: a send_message that raises after the loop has read a line raises
\* because the read failed, never because of what a line holds.
C20_OnlyTransportFailuresRaise ==
    (last_call.op = "send" /\ last_call.outcome = "raised" /\ Read # <<>>)
        => last_call.error \in StreamFailures

(***************************************************************************)
(* DiscordAIBot: on_message handlers and cleanup_conversations on one      *)
(* event loop, for the messages of one channel                             *)
(***************************************************************************)
Handlers == {"h1", "h2"}
Tasks == Handlers \cup {"sweep"}
Channel == "c1"
Commands == {"prompt", "reset"}

Handler(p, kd, n, c) == [pc |-> p, kind |-> kd, msg |-> n, client |-> c]
NoSend == [msg |-> 0, client |-> 0, stored |-> TRUE]
NoLookup == [active |-> FALSE, records |-> <<>>, clients |-> <<>>]
Lookup(recs, cls) == [active |-> TRUE, records |-> recs, clients |-> cls]

\* The event loop runs one task at a time, and a task keeps it until it awaits:
\* task t can start a synchronous block when no task is inside one.
LoopFreeAlways(t) == TRUE
LoopFreeForSweep(t) == t = "sweep" \/ running = "none"
LoopFree(t) == running = "none"

\* asyncio starts the tasks that discord.py created for the events in the order
\* of their creation.
FirstInQueue(h) ==
    \A g \in Handlers \ {h} :
        handlers[g].pc = "received" => handlers[g].msg > handlers[h].msg

\* cleanup_conversations: `except Exception as e: ... await asyncio.sleep(60)`
AfterSweepErrorStopped == "stopped"
AfterSweepError == "sleep"

InitBotVars ==
    /\ handlers = [h \in Handlers |-> Handler("idle", "prompt", 0, 0)]
    /\ received = 0
    /\ running = "none"
    /\ sweep = [pc |-> "init", failures |-> 0]
    /\ closed = FALSE
    /\ lookup = [t \in Tasks |-> NoLookup]
    /\ sent = NoSend

\* discord.py dispatches on_message for an own message that starts with "/ai ".
Receive(h, kd) ==
    /\ ~closed
    /\ handlers[h].pc \in {"idle", "done"}
    /\ h = "h1" \/ handlers["h1"].pc \notin {"idle", "done"}
    /\ received < MaxMessages
    /\ received' = received + 1
    /\ handlers' = [handlers EXCEPT ![h] = Handler("received", kd, received + 1, 0)]
    /\ UNCHANGED <<running, sweep, closed, lookup, sent, stvars>>

\* handle_ai_prompt up to its first await: get_or_create is entered ...
PromptStart(h) ==
    /\ handlers[h].pc = "received"
    /\ handlers[h].kind = "prompt"
    /\ FirstInQueue(h)
    /\ LoopFree(h)
    /\ Len(clients) < MaxClients
    /\ handlers' = [handlers EXCEPT ![h].pc = "lookup"]
    /\ running' = h
    /\ lookup' = [lookup EXCEPT ![h] = Lookup(conversations, clients)]
    /\ UNCHANGED <<received, sweep, closed, sent, stvars>>

\* ... and returns the client; the handler awaits asyncio.sleep and add_reaction.
PromptGet(h) ==
    /\ handlers[h].pc = "lookup"
    /\ GetOrCreate(Channel)
    /\ handlers' = [handlers EXCEPT ![h].pc = "delay", ![h].client = store_call'.ret]
    /\ running' = "none"
    /\ lookup' = [lookup EXCEPT ![h] = NoLookup]
    /\ UNCHANGED <<received, sweep, closed, sent>>

\* The awaits are over: client.send_message(prompt) appends the user turn and
\* posts the request ...
PromptSendStart(h) ==
    /\ handlers[h].pc = "delay"
    /\ LoopFree(h)
    /\ LET c == handlers[h].client IN
       /\ clients' = [clients EXCEPT ![c].turns = WithUserTurn(@, handlers[h].msg)]
       /\ lookup' = [lookup EXCEPT ![h] = Lookup(conversations, clients')]
       /\ sent' = [msg |-> handlers[h].msg, client |-> c,
                   stored |-> /\ Channel \in DOMAIN conversations
                              /\ conversations[Channel].client = c]
    /\ handlers' = [handlers EXCEPT ![h].pc = "sending"]
    /\ running' = h
    /\ UNCHANGED <<received, sweep, closed, conversations, now, store_call, script>>

\* ... and returns the reply (recorded when it is not empty) or raises.
SendOutcomes == {"reply", "empty", "raise"}

PromptSendEnd(h, out) ==
    /\ handlers[h].pc = "sending"
    /\ LET c == handlers[h].client IN
       clients' = IF out = "reply"
                  THEN [clients EXCEPT ![c] =
                          [turns     |-> WithAssistantTurn(@.turns, handlers[h].msg),
                           responses |-> WithResponse(@.responses, handlers[h].msg)]]
                  ELSE clients
    /\ handlers' = [handlers EXCEPT ![h].pc = "done"]
    /\ running' = "none"
    /\ lookup' = [lookup EXCEPT ![h] = NoLookup]
    /\ UNCHANGED <<received, sweep, closed, sent, conversations, now, store_call, script>>

\* handle_reset up to its first await: `await message.delete()`
ResetStart(h) ==
    /\ handlers[h].pc = "received"
    /\ handlers[h].kind = "reset"
    /\ FirstInQueue(h)
    /\ LoopFree(h)
    /\ handlers' = [handlers EXCEPT ![h].pc = "deleting"]
    /\ UNCHANGED <<received, running, sweep, closed, lookup, sent, stvars>>

\* conversation_manager.reset(channel_id) is entered ...
ResetLookup(h) ==
    /\ handlers[h].pc = "deleting"
    /\ LoopFree(h)
    /\ handlers' = [handlers EXCEPT ![h].pc = "resetting"]
    /\ running' = h
    /\ lookup' = [lookup EXCEPT ![h] = Lookup(conversations, clients)]
    /\ UNCHANGED <<received, sweep, closed, sent, stvars>>

\* ... and returns; the handler goes on to send the confirmation.
ResetApply(h) ==
    /\ handlers[h].pc = "resetting"
    /\ Reset(Channel)
    /\ handlers' = [handlers EXCEPT ![h].pc = "done"]
    /\ running' = "none"
    /\ lookup' = [lookup EXCEPT ![h] = NoLookup]
    /\ UNCHANGED <<received, sweep, closed, sent>>

\* cleanup_conversations: `await self.wait_until_ready()` returns.
SweepReady ==
    /\ sweep.pc = "init"
    /\ sweep' = [sweep EXCEPT !.pc = "check"]
    /\ UNCHANGED <<handlers, received, running, closed, lookup, sent, stvars>>

\* `while not self.is_closed()`: cleanup_expired() is entered ...
SweepBegin ==
    /\ sweep.pc = "check"
    /\ ~closed
    /\ LoopFree("sweep")
    /\ sweep' = [sweep EXCEPT !.pc = "sweeping"]
    /\ running' = "sweep"
    /\ lookup' = [lookup EXCEPT !["sweep"] = Lookup(conversations, clients)]
    /\ UNCHANGED <<handlers, received, closed, sent, stvars>>

\* ... and returns; `await asyncio.sleep(60)`
SweepEnd ==
    /\ sweep.pc = "sweeping"
    /\ CleanupExpired
    /\ sweep' = [sweep EXCEPT !.pc = "sleep"]
    /\ running' = "none"
    /\ lookup' = [lookup EXCEPT !["sweep"] = NoLookup]
    /\ UNCHANGED <<handlers, received, closed, sent>>

\* ... or raises: `except Exception`, `await asyncio.sleep(60)`
SweepRaise ==
    /\ sweep.pc = "sweeping"
    /\ sweep.failures < MaxSweepFailures
    /\ sweep' = [pc |-> AfterSweepError, failures |-> sweep.failures + 1]
    /\ running' = "none"
    /\ lookup' = [lookup EXCEPT !["sweep"] = NoLookup]
    /\ UNCHANGED <<handlers, received, closed, sent, stvars>>

\* asyncio.sleep(60) returns.
SweepWake ==
    /\ sweep.pc = "sleep"
    /\ sweep' = [sweep EXCEPT !.pc = "check"]
    /\ UNCHANGED <<handlers, received, running, closed, lookup, sent, stvars>>

\* `while not self.is_closed()` ends the task.
SweepStop ==
    /\ sweep.pc = "check"
    /\ closed
    /\ sweep' = [sweep EXCEPT !.pc = "stopped"]
    /\ UNCHANGED <<handlers, received, running, closed, lookup, sent, stvars>>

\* The client is closed.
Close ==
    /\ ~closed
    /\ closed' = TRUE
    /\ UNCHANGED <<handlers, received, running, sweep, lookup, sent, stvars>>

\* Time passes while no task is inside synchronous code.
BotInstants == {0, 21, 42}

BotTick ==
    /\ running = "none"
    /\ Tick
    /\ now' \in BotInstants
    /\ UNCHANGED bvars

\* C21: with a stream_callback, the callback calls so far are exactly the
\* contents of the content lines read so far, one call per line and in their
\* order, and their concatenation is the accumulated text, and the returned
\* text when the call has returned; without one there is no call.
C21_CallbackPerDelta ==
    /\ callbacks = IF stream_callback THEN ContentsOf(Read) ELSE <<>>
    /\ stream_callback
          => /\ spc = "stream" => Concat(callbacks) = full_response
             /\ SendDecoded => Concat(callbacks) = last_call.value

C21_Witness ==
    /\ SendDecoded
    /\ stream_callback
    /\ body = <<ContentLine("a"), ContentLine(""), ContentB>>
    /\ rest = <<>>
    /\ callbacks = <<"a", "", "b">>
    /\ last_call.value = "ab"

(***************************************************************************)
(* Claims about concurrent handlers and the sweep task                     *)
(***************************************************************************)
IsUserTurn(t) == t.role = "user"
IsAssistantTurn(t) == t.role = "assistant"
InStoreCall(t) ==
    IF t = "sweep" THEN sweep.pc = "sweeping"
    ELSE handlers[t].pc \in {"lookup", "resetting"}

\* C22: in every session the user turns stand in the order in which their
\* messages were received.
C22_TurnsInRequestOrder ==
    \A c \in 1..Len(clients) :
        \A i, j \in 1..Len(clients[c].turns) :
            ( /\ i < j
              /\ IsUserTurn(clients[c].turns[i])
              /\ IsUserTurn(clients[c].turns[j]) )
                => clients[c].turns[i].content < clients[c].turns[j].content

\* C23: while a handler is inside send_message, the turns of its session are
\* what its own send made them (its user turn is the last turn) and no other
\* task is inside synchronous code; every assistant turn stands directly after
\* the user turn of the same message.
C23_SendsAreSerialized ==
    /\ \A h \in Handlers :
           handlers[h].pc = "sending"
               => /\ running = h
                  /\ clients = lookup[h].clients
                  /\ conversations = lookup[h].records
                  /\ LET ts == clients[handlers[h].client].turns IN
                         ts # <<>> /\ ts[Len(ts)] = UserTurn(handlers[h].msg)
    /\ \A c \in 1..Len(clients) :
           \A i \in 1..Len(clients[c].turns) :
               IsAssistantTurn(clients[c].turns[i])
                   => /\ i > 1
                      /\ clients[c].turns[i - 1] = UserTurn(clients[c].turns[i].content)

C23_Witness ==
    /\ handlers["h1"].pc = "delay"
    /\ handlers["h2"].pc = "done"
    /\ handlers["h1"].client = handlers["h2"].client
    /\ handlers["h1"].msg < handlers["h2"].msg
    /\ clients[handlers["h1"].client].turns
           = <<UserTurn(handlers["h2"].msg), AssistantTurn(handlers["h2"].msg)>>

\* C24: while a task is inside get_or_create, reset or cleanup_expired, it is
\* the only task inside synchronous code, and the records and the clients are
\* as they were when it entered the method.
C24_StoreCallsAreAtomic ==
    \A t \in Tasks :
        InStoreCall(t)
            => /\ running = t
               /\ lookup[t].active
               /\ conversations = lookup[t].records
               /\ clients = lookup[t].clients
               /\ \A u \in Tasks \ {t} : ~InStoreCall(u)

C24_Witness ==
    /\ sweep.pc = "sweeping"
    /\ \E h \in Handlers : handlers[h].pc = "deleting"
    /\ HasRecord(Channel)
    /\ Age(Channel) > TimeoutMinutes
    /\ clients[conversations[Channel].client].turns # <<>>

\* C25: once the sweep task has started, a record that is older than the
\* timeout is eventually removed, unless a get_or_create or reset touches it or
\* the client is closed; a sweep that raised does not end the task.
C25_IdleRecordsAreReclaimed ==
    (HasRecord(Channel) /\ Age(Channel) > TimeoutMinutes /\ sweep.pc # "init")
        ~> (~HasRecord(Channel) \/ Age(Channel) <= TimeoutMinutes \/ closed)

C25_Witness ==
    /\ sweep.failures = 1
    /\ sweep.pc = "sleep"
    /\ ~closed
    /\ store_call.op = "cleanup"
    /\ store_call.ret = 1
    /\ store_call.at = now
    /\ ~HasRecord(Channel)
    /\ \A h \in Handlers : handlers[h].pc = "done"

\* C30: every send_message that a handler starts is on the session that the
\* store holds for the channel at that moment.
C30_SendOnStoredSession ==
    sent.msg > 0 => sent.stored

(***************************************************************************)
(* Specifications                                                          *)
(***************************************************************************)
InitDeliver == InitDeliverVars /\ InitSessionVars /\ InitStoreVars /\ InitResponseVars /\ InitBotVars

NextDeliver ==
    \/ Call /\ UNCHANGED <<svars, stvars, rvars, bvars>>
    \/ AttemptOk /\ UNCHANGED <<stvars, rvars, bvars>>
    \/ AttemptPermissionDenied /\ UNCHANGED <<stvars, rvars, bvars>>
    \/ AttemptRateLimited /\ UNCHANGED <<stvars, rvars, bvars>>
    \/ AttemptSlowMode /\ UNCHANGED <<stvars, rvars, bvars>>
    \/ AttemptOther /\ UNCHANGED <<stvars, rvars, bvars>>
    \/ Sleep /\ UNCHANGED <<stvars, rvars, bvars>>

SpecDeliver == InitDeliver /\ [][NextDeliver]_vars

\* channel.send and asyncio.sleep complete: a started call keeps taking steps.
FairSpecDeliver == SpecDeliver /\ WF_vars(NextDeliver)

\* One BinXChatClient under send_message and reset_conversation.
InitSession ==
    /\ InitSessionVars
    /\ InitDeliverVars
    /\ InitStoreVars
    /\ InitResponseVars /\ InitBotVars
    /\ pending = OkOutcome

NextSession ==
    \/ (\E m \in Prompts : SendBegin(m, FALSE)) /\ UNCHANGED <<dvars, stvars, rvars, bvars>>
    \/ (\E line \in Lines : ReadLine(line)) /\ UNCHANGED <<dvars, stvars, rvars, bvars>>
    \/ StreamEnd /\ UNCHANGED <<dvars, stvars, rvars, bvars>>
    \/ StreamFail /\ UNCHANGED <<dvars, stvars, rvars, bvars>>
    \/ ResetConversation /\ UNCHANGED <<dvars, stvars, rvars, bvars>>

SpecSession == InitSession /\ [][NextSession]_vars

\* The same, with set_conversation_history.
NextSessionRestore ==
    \/ NextSession
    \/ (\E h \in RestoredHistories : SetConversationHistory(h)) /\ UNCHANGED <<dvars, stvars, rvars, bvars>>

SpecSessionRestore == InitSession /\ [][NextSessionRestore]_vars

\* One ConversationManager, the clock, and handlers that use the clients.
InitStore ==
    /\ InitStoreVars
    /\ InitSessionVars
    /\ InitDeliverVars
    /\ InitResponseVars /\ InitBotVars
    /\ pending = OkOutcome

NextStore ==
    \/ (\E k \in Keys : GetOrCreate(k)) /\ UNCHANGED <<dvars, svars, rvars, bvars>>
    \/ (\E k \in Keys : Reset(k)) /\ UNCHANGED <<dvars, svars, rvars, bvars>>
    \/ CleanupExpired /\ UNCHANGED <<dvars, svars, rvars, bvars>>
    \/ Tick /\ UNCHANGED <<dvars, svars, rvars, bvars>>
    \/ (\E id \in 1..MaxClients : ClientSend(id)) /\ UNCHANGED <<dvars, svars, rvars, bvars>>

SpecStore == InitStore /\ [][NextStore]_vars

\* One send_message on a new BinXChatClient, with the response it reads.
InitDecode ==
    /\ InitSessionVars
    /\ InitResponseVars /\ InitBotVars
    /\ InitDeliverVars
    /\ InitStoreVars
    /\ pending = OkOutcome

NextDecode ==
    \/ (\E cb \in BOOLEAN : DecodeBegin("hello", cb)) /\ UNCHANGED <<dvars, stvars, bvars>>
    \/ DecodeLine /\ UNCHANGED <<dvars, stvars, bvars>>
    \/ DecodeEnd /\ UNCHANGED <<dvars, stvars, bvars>>
    \/ DecodeFail /\ UNCHANGED <<dvars, stvars, bvars>>

SpecDecode == InitDecode /\ [][NextDecode]_vars

\* The bot: handlers of the channel's messages, the sweep task and the clock.
InitBot ==
    /\ InitBotVars
    /\ conversations = <<>>
    /\ clients = <<>>
    /\ now = 0
    /\ store_call = StoreCall("init", "", 0, FALSE, 0, FALSE)
    /\ script = NoScript
    /\ InitSessionVars
    /\ InitResponseVars
    /\ InitDeliverVars
    /\ pending = OkOutcome

NextBot ==
    \/ (\E h \in Handlers, kd \in Commands : Receive(h, kd)) /\ UNCHANGED <<dvars, svars, rvars>>
    \/ (\E h \in Handlers : PromptStart(h)) /\ UNCHANGED <<dvars, svars, rvars>>
    \/ (\E h \in Handlers : PromptGet(h)) /\ UNCHANGED <<dvars, svars, rvars>>
    \/ (\E h \in Handlers : PromptSendStart(h)) /\ UNCHANGED <<dvars, svars, rvars>>
    \/ (\E h \in Handlers, out \in SendOutcomes : PromptSendEnd(h, out))
           /\ UNCHANGED <<dvars, svars, rvars>>
    \/ (\E h \in Handlers : ResetStart(h)) /\ UNCHANGED <<dvars, svars, rvars>>
    \/ (\E h \in Handlers : ResetLookup(h)) /\ UNCHANGED <<dvars, svars, rvars>>
    \/ (\E h \in Handlers : ResetApply(h)) /\ UNCHANGED <<dvars, svars, rvars>>
    \/ SweepReady /\ UNCHANGED <<dvars, svars, rvars>>
    \/ SweepBegin /\ UNCHANGED <<dvars, svars, rvars>>
    \/ SweepEnd /\ UNCHANGED <<dvars, svars, rvars>>
    \/ SweepRaise /\ UNCHANGED <<dvars, svars, rvars>>
    \/ SweepWake /\ UNCHANGED <<dvars, svars, rvars>>
    \/ SweepStop /\ UNCHANGED <<dvars, svars, rvars>>
    \/ Close /\ UNCHANGED <<dvars, svars, rvars>>
    \/ BotTick /\ UNCHANGED <<dvars, svars, rvars>>

SpecBot == InitBot /\ [][NextBot]_vars

\* Synchronous code runs to its end, and the event loop runs the sweep task
\* when its sleep is over and no task is inside synchronous code.
SweepStep == (SweepBegin \/ SweepEnd \/ SweepRaise \/ SweepWake) /\ UNCHANGED <<dvars, svars, rvars>>
SyncStep ==
    (\E h \in Handlers :
        \/ PromptGet(h)
        \/ \E out \in SendOutcomes : PromptSendEnd(h, out)
        \/ ResetApply(h)) /\ UNCHANGED <<dvars, svars, rvars>>

FairSpecBot == SpecBot /\ WF_vars(SweepStep) /\ WF_vars(SyncStep)

====
